---- MODULE Spec2Model ----
(***************************************************************************)
(* botnode: the Control Engine's connection loop (botnode/src/control.rs)  *)
(* and the FTX adapter's order-book reconstruction                         *)
(* (botnode/src/market_data/ftx.rs).                                       *)
(***************************************************************************)
EXTENDS Integers, Sequences, FiniteSets, TLC

\* ------------------------------------------------------------------------
\* Bounds of the model and constants of the program
\* ------------------------------------------------------------------------

\* Outbound messages of one connection that the model records (a prefix log).
MaxSent == 3
\* Shutdown delay tokens that holders other than the control loop may hold.
MaxOther == 1

\* data_rx() calls made on the engine before it is started.
MaxReaders == 2

\* (price, size) pairs one order-book message carries, bids and asks together.
MaxPairs == 2
\* Trade records one trade-batch message carries.
MaxTrades == 2

\* control.rs:33  async_std::task::sleep(Duration::from_secs(1))
BackoffSecs == 1
\* control.rs:19  ping_interval: Duration::from_secs(5)
PingSecs == 5
\* control.rs:42  ring_channel(NonZeroUsize::new(1024).unwrap())
RingCapacity == 1024

VARIABLES
    \* ---- ControlEngine (control.rs)
    status,        \* ControlEngine.status: "Offline" | "Connecting" | "Online"
    pc,            \* position of the engine task in start / control_loop
    startResult,   \* what start has returned: "none" | "Ok" | "Err"
    tokenHeld,     \* control_loop's _token is alive
    connected,     \* the TcpStream / Framed of this control_loop call exists
    sent,          \* first MaxSent outbound messages of the current connection
    helloFailed,   \* framed.send(hello) returned Err on the current connection
    gotFrame,      \* a valid inbound frame was received on this connection
    lastErr,       \* cause of the last Err returned by control_loop
    attempts,      \* control_loop calls made since the last Err return
    backoffLeft,   \* seconds left of the driver's sleep
    pingLeft,      \* seconds left of the select's ping sleep
    sincePing,     \* seconds the connection's loop has run since its last
                   \* Ping (or since it began), counted up to PingSecs + 1
    readers,       \* the receivers handed out by data_rx, in call order
    \* ---- Shutdown (shared handle)
    triggered,     \* Shutdown::trigger() has been called
    otherTokens,   \* delay tokens held outside the control loop
    \* ---- Ftx::process_ws_msg (market_data/ftx.rs)
    markets,       \* the per-symbol table: symbol -> PlainOrderbook
    prevMarkets,   \* the table as it was when the current call was entered
    lastMsg,       \* the message of the current call
    ret,           \* what the current call returned
    published,     \* the last event a consumer of the engine's output took
    \* ---- TryFrom<&rest::MarketInfo> for Market (market_data/ftx.rs)
    info,          \* the exchange's market record being translated
    converted      \* the result of the translation

ctlVars == <<status, pc, startResult, tokenHeld, connected, sent, helloFailed,
             gotFrame, lastErr, attempts, backoffLeft, pingLeft, sincePing,
             readers, triggered, otherTokens>>

bookVars == <<markets, prevMarkets, lastMsg, ret, published>>

mktVars == <<info, converted>>

vars == <<ctlVars, bookVars, mktVars>>

\* ------------------------------------------------------------------------
\* Shutdown handle
\* ------------------------------------------------------------------------

\* Shutdown completion: triggered and no delay token outstanding.
ShutdownCompleted == triggered /\ ~tokenHeld /\ otherTokens = 0

\* shutdown.delay_shutdown_token(): Err once shutdown has completed.
delay_shutdown_token_ok == ~ShutdownCompleted

\* Shutdown::trigger(), called by some other holder of the handle.
Trigger ==
    /\ ~triggered
    /\ triggered' = TRUE
    /\ UNCHANGED <<status, pc, startResult, tokenHeld, connected, sent,
                   helloFailed, gotFrame, lastErr, attempts, backoffLeft,
                   pingLeft, otherTokens, sincePing,
                   readers, bookVars, mktVars>>

\* Another engine takes a delay token.
OtherAcquire ==
    /\ otherTokens < MaxOther
    /\ delay_shutdown_token_ok
    /\ otherTokens' = otherTokens + 1
    /\ UNCHANGED <<status, pc, startResult, tokenHeld, connected, sent,
                   helloFailed, gotFrame, lastErr, attempts, backoffLeft,
                   pingLeft, triggered, sincePing,
                   readers, bookVars, mktVars>>

\* Another engine drops its delay token.
OtherRelease ==
    /\ otherTokens > 0
    /\ otherTokens' = otherTokens - 1
    /\ UNCHANGED <<status, pc, startResult, tokenHeld, connected, sent,
                   helloFailed, gotFrame, lastErr, attempts, backoffLeft,
                   pingLeft, triggered, sincePing,
                   readers, bookVars, mktVars>>

\* ------------------------------------------------------------------------
\* ControlEngine::start and control_loop
\* ------------------------------------------------------------------------

\* The prefix log of outbound messages.
Record(log, m) == IF Len(log) < MaxSent THEN Append(log, m) ELSE log

\* Mutant of OnLoopErr: the driver propagates the error with `?`.
OnLoopErr_Propagate(cause) ==
    /\ pc' = "done"
    /\ startResult' = "Err"
    /\ lastErr' = cause
    /\ tokenHeld' = FALSE
    /\ connected' = FALSE
    /\ UNCHANGED <<status, sent, helloFailed, gotFrame, attempts, backoffLeft,
                   pingLeft, triggered, otherTokens, sincePing,
                   readers, bookVars, mktVars>>

\* Mutant of OnLoopErr: the delay token outlives the control_loop call.
OnLoopErr_KeepToken(cause) ==
    /\ pc' = "backoff"
    /\ backoffLeft' = BackoffSecs
    /\ attempts' = 0
    /\ lastErr' = cause
    /\ connected' = FALSE
    /\ UNCHANGED <<status, startResult, tokenHeld, sent, helloFailed, gotFrame,
                   pingLeft, triggered, otherTokens, sincePing, readers,
                   bookVars, mktVars>>

\* control_loop returns Err(EngineError {}): its locals (_token, framed) are
\* dropped, start's `while let Err(e)` logs and begins the 1-second sleep.
\* status is not assigned on this path.
OnLoopErr(cause) ==
    /\ pc' = "backoff"
    /\ backoffLeft' = BackoffSecs
    /\ attempts' = 0
    /\ lastErr' = cause
    /\ tokenHeld' = FALSE
    /\ connected' = FALSE
    /\ UNCHANGED <<status, startResult, sent, helloFailed, gotFrame, pingLeft,
                   triggered, otherTokens, sincePing,
                   readers, bookVars, mktVars>>

\* Mutant of data_rx: the receiver is one of the engine's own channel, whose
\* sender the engine keeps.
data_rx_shared(n) == [chan |-> 0, capacity |-> RingCapacity, senderAlive |-> TRUE]

\* ControlEngine::data_rx, the n-th call: a new channel of 1024 slots is
\* created, its sender _data_tx is dropped on return, its receiver returned.
data_rx(n) == [chan |-> n, capacity |-> RingCapacity, senderAlive |-> FALSE]

\* A data_rx(&self) call; start(self) consumes the engine, so the calls
\* come before it.
DataRx ==
    /\ pc = "new"
    /\ Len(readers) < MaxReaders
    /\ readers' = Append(readers, data_rx(Len(readers) + 1))
    /\ UNCHANGED <<status, pc, startResult, tokenHeld, connected, sent,
                   helloFailed, gotFrame, lastErr, attempts, backoffLeft,
                   pingLeft, sincePing, triggered, otherTokens, bookVars,
                   mktVars>>

\* ControlEngine::new followed by the first control_loop call of start.
Start ==
    /\ pc = "new"
    /\ pc' = "entry"
    /\ attempts' = attempts + 1
    /\ UNCHANGED <<status, startResult, tokenHeld, connected, sent, helloFailed,
                   gotFrame, lastErr, backoffLeft, pingLeft, triggered,
                   otherTokens, sincePing,
                   readers, bookVars, mktVars>>

\* The sleep of start is over: the while loop calls control_loop again.
BackoffDone ==
    /\ pc = "backoff"
    /\ backoffLeft = 0
    /\ pc' = "entry"
    /\ attempts' = attempts + 1
    /\ UNCHANGED <<status, startResult, tokenHeld, connected, sent, helloFailed,
                   gotFrame, lastErr, backoffLeft, pingLeft, triggered,
                   otherTokens, sincePing,
                   readers, bookVars, mktVars>>

\* control_loop, lines 65-69: take the delay token, then status = Connecting.
LoopEntry ==
    /\ pc = "entry"
    /\ IF delay_shutdown_token_ok
       THEN /\ tokenHeld' = TRUE
            /\ status' = "Connecting"
            /\ pc' = "dial"
            /\ UNCHANGED <<startResult, connected, sent, helloFailed, gotFrame,
                           lastErr, attempts, backoffLeft, pingLeft, triggered,
                           otherTokens, sincePing,
                   readers, bookVars, mktVars>>
       ELSE OnLoopErr("token")

\* Mutant of DialOk: the status becomes Online as soon as the dial succeeds.
DialOk_Online ==
    /\ pc = "dial"
    /\ pc' = "hello"
    /\ connected' = TRUE
    /\ status' = "Online"
    /\ sent' = <<>>
    /\ helloFailed' = FALSE
    /\ gotFrame' = FALSE
    /\ UNCHANGED <<startResult, tokenHeld, lastErr, attempts, backoffLeft,
                   pingLeft, triggered, otherTokens, sincePing,
                   readers, bookVars, mktVars>>

\* TcpStream::connect succeeds and Framed::new wraps the stream.
DialOk ==
    /\ pc = "dial"
    /\ pc' = "hello"
    /\ connected' = TRUE
    /\ sent' = <<>>
    /\ helloFailed' = FALSE
    /\ gotFrame' = FALSE
    /\ UNCHANGED <<status, startResult, tokenHeld, lastErr, attempts,
                   backoffLeft, pingLeft, triggered, otherTokens, sincePing,
                   readers, bookVars, mktVars>>

\* TcpStream::connect fails: map_err(..)? returns Err.
DialFail ==
    /\ pc = "dial"
    /\ OnLoopErr("dial")

\* framed.send(hello) succeeds; the loop is entered and the select begins.
HelloOk ==
    /\ pc = "hello"
    /\ sent' = Record(sent, "Hello")
    /\ pc' = "select"
    /\ pingLeft' = PingSecs
    /\ sincePing' = 0
    /\ UNCHANGED <<status, startResult, tokenHeld, connected, helloFailed,
                   gotFrame, lastErr, attempts, backoffLeft, triggered,
                   otherTokens, readers, bookVars, mktVars>>

\* framed.send(hello) fails: the error is logged and the loop is entered.
HelloFail ==
    /\ pc = "hello"
    /\ helloFailed' = TRUE
    /\ pc' = "select"
    /\ pingLeft' = PingSecs
    /\ sincePing' = 0
    /\ UNCHANGED <<status, startResult, tokenHeld, connected, sent, gotFrame,
                   lastErr, attempts, backoffLeft, triggered, otherTokens, readers, bookVars, mktVars>>

\* select!: framed.next() yields Some(Ok(msg)); the loop iterates, which
\* creates a new ping sleep.
RecvFrame ==
    /\ pc = "select"
    /\ status' = IF status \in {"Offline", "Connecting"} THEN "Online" ELSE status
    /\ gotFrame' = TRUE
    /\ pingLeft' = PingSecs
    /\ UNCHANGED <<pc, startResult, tokenHeld, connected, sent, helloFailed,
                   lastErr, attempts, backoffLeft, triggered, otherTokens, sincePing,
                   readers, bookVars, mktVars>>

\* select!: framed.next() yields Some(Err(e)): socket or decode error.
RecvErr ==
    /\ pc = "select"
    /\ OnLoopErr("frame")

\* select!: framed.next() yields None: the peer closed the connection.
RecvClosed ==
    /\ pc = "select"
    /\ OnLoopErr("closed")

\* select!: the ping sleep is over and framed.send(ping) succeeds.
PingOk ==
    /\ pc = "select"
    /\ pingLeft = 0
    /\ sent' = Record(sent, "Ping")
    /\ pingLeft' = PingSecs
    /\ sincePing' = 0
    /\ UNCHANGED <<status, pc, startResult, tokenHeld, connected, helloFailed,
                   gotFrame, lastErr, attempts, backoffLeft, triggered,
                   otherTokens, readers, bookVars, mktVars>>

\* select!: the ping sleep is over and framed.send(ping) fails: unwrap()
\* panics, the task unwinds and drops the token and the stream.
PingFail ==
    /\ pc = "select"
    /\ pingLeft = 0
    /\ pc' = "panicked"
    /\ tokenHeld' = FALSE
    /\ connected' = FALSE
    /\ UNCHANGED <<status, startResult, sent, helloFailed, gotFrame, lastErr,
                   attempts, backoffLeft, pingLeft, triggered, otherTokens, sincePing,
                   readers, bookVars, mktVars>>

\* select!: wait_shutdown_triggered() resolves: break Ok(()), start returns Ok.
ShutdownObserved ==
    /\ pc = "select"
    /\ triggered
    /\ pc' = "done"
    /\ startResult' = "Ok"
    /\ tokenHeld' = FALSE
    /\ connected' = FALSE
    /\ UNCHANGED <<status, sent, helloFailed, gotFrame, lastErr, attempts,
                   backoffLeft, pingLeft, triggered, otherTokens, sincePing,
                   readers, bookVars, mktVars>>

\* One second passes while the task is suspended in a sleep that is not over.
Tick ==
    /\ \/ /\ pc = "backoff"
          /\ backoffLeft > 0
          /\ backoffLeft' = backoffLeft - 1
          /\ UNCHANGED <<pingLeft, sincePing>>
       \/ /\ pc = "select"
          /\ pingLeft > 0
          /\ pingLeft' = pingLeft - 1
          /\ sincePing' = IF sincePing < PingSecs + 1 THEN sincePing + 1
                          ELSE sincePing
          /\ UNCHANGED backoffLeft
    /\ UNCHANGED <<status, pc, startResult, tokenHeld, connected, sent,
                   helloFailed, gotFrame, lastErr, attempts, triggered,
                   otherTokens, readers, bookVars, mktVars>>

\* ------------------------------------------------------------------------
\* Order books (botvana::market::orderbook, used by ftx.rs)
\* ------------------------------------------------------------------------

\* Markets the adapter is subscribed to, and the absent `market` field.
Symbols == {"BTC-PERP"}
NoMarket == "none"
\* Prices and sizes of the price levels on the wire; size 0 removes a level.
Prices == {1, 2}
Sizes == {0, 1, 2}
\* OrderbookMsg.time values.
Times == {1, 2}
\* OrderbookMsg.action values: the two the adapter knows and another one.
Actions == {"partial", "update", "resync"}

\* Whether price p comes before price q on the given side: bids are kept in
\* descending, asks in ascending price order.
Before(side, p, q) == IF side = "bids" THEN p > q ELSE p < q

\* One upsert into a sorted price-level vector: the level of that price is
\* dropped and, unless the size is 0, the pair is put at its sorted place.
Upsert(side, levels, pair) ==
    LET head == SelectSeq(levels, LAMBDA l : Before(side, l[1], pair[1]))
        tail == SelectSeq(levels, LAMBDA l : Before(side, pair[1], l[1]))
    IN  IF pair[2] = 0 THEN head \o tail ELSE head \o <<pair>> \o tail

\* PriceLevelsVec::update: the pairs of the delta are upserted in turn.
RECURSIVE update(_, _, _)
update(side, levels, delta) ==
    IF delta = <<>> THEN levels
    ELSE update(side, Upsert(side, levels, Head(delta)), Tail(delta))

\* PriceLevelsVec::from_tuples_vec: the vector holds the pairs as given.
from_tuples_vec(data) == [i \in 1..Len(data) |-> <<data[i][1], data[i][2]>>]

\* PriceLevelsVec::from_tuples_vec_unsorted: a fresh sorted price-level
\* vector of the side, built from pairs in any order.
from_tuples_vec_unsorted(side, data) == update(side, <<>>, from_tuples_vec(data))

\* PlainOrderbook::update_with_timestamp.
update_with_timestamp(book, bids, asks, time) ==
    [bids |-> update("bids", book.bids, bids),
     asks |-> update("asks", book.asks, asks),
     time |-> time]

\* ------------------------------------------------------------------------
\* Ftx::process_ws_msg
\* ------------------------------------------------------------------------

\* Sequences of at most n pairs, no price listed twice.
SidePayloads(n) ==
    {s \in UNION {[1..k -> Prices \X Sizes] : k \in 0..n} :
        \A i, j \in 1..Len(s) : i # j => s[i][1] # s[j][1]}

\* ws::OrderbookMsg values.
OrderbookMsgs ==
    {[kind |-> "orderbook", market |-> m, action |-> a, time |-> t,
      bids |-> b, asks |-> k] :
        m \in Symbols \cup {NoMarket}, a \in Actions, t \in Times,
        b \in SidePayloads(MaxPairs), k \in SidePayloads(MaxPairs)}

\* ws::Trade values: `time` is a string that parses ("1") or does not ("x").
WsTrades == [price : Prices, size : {1}, time : {"1", "x"}]

\* Trade batches.
TradesMsgs ==
    {[kind |-> "trades", market |-> m, trades |-> ts] :
        m \in Symbols \cup {NoMarket},
        ts \in UNION {[1..k -> WsTrades] : k \in 0..MaxTrades}}

\* The text messages the socket delivers: order books with at most MaxPairs
\* pairs, trade batches, and text that is no WsMsg.
Msgs ==
    {m \in OrderbookMsgs : Len(m.bids) + Len(m.asks) <= MaxPairs}
        \cup TradesMsgs \cup {[kind |-> "garbage"]}

NoMsg == [kind |-> "none"]
NoRet == [kind |-> "none"]

\* Ok(Some(MarketEvent {..})).
OkEvent(e) == [kind |-> "Ok", event |-> e]
\* A panic of Option::unwrap.
Panic == [kind |-> "Panic"]

\* The table with the entry of symbol sym set to book (HashMap::insert).
Insert(tbl, sym, book) ==
    [s \in DOMAIN tbl \cup {sym} |-> IF s = sym THEN book ELSE tbl[s]]

\* str::parse of ws::Trade.time.
ParseTime(t) == IF t = "1" THEN [ok |-> TRUE, value |-> 1] ELSE [ok |-> FALSE]

\* Mutant of ConvertTrades: one record that does not parse fails the whole
\* batch (collect into a Result), which leaves no trade.
ConvertTrades_AllOrNothing(ts) ==
    IF \E i \in 1..Len(ts) : ~ParseTime(ts[i].time).ok
    THEN <<>>
    ELSE [i \in 1..Len(ts) |->
            [price |-> ts[i].price, size |-> ts[i].size,
             time |-> ParseTime(ts[i].time).value]]

\* TryFrom<&ws::Trade> for botvana::market::trade::Trade (the Ok values of a
\* batch, in order: filter_map(..ok()).collect()).
RECURSIVE ConvertTrades(_)
ConvertTrades(ts) ==
    IF ts = <<>> THEN <<>>
    ELSE LET t == Head(ts)
             rest == ConvertTrades(Tail(ts))
         IN  IF ParseTime(t.time).ok
             THEN <<[price |-> t.price, size |-> t.size,
                     time |-> ParseTime(t.time).value]>> \o rest
             ELSE rest

\* ws::Data::Trades branch.
process_trades(tbl, msg) ==
    IF msg.market = NoMarket
    THEN [tbl |-> tbl, ret |-> Panic]
    ELSE [tbl |-> tbl,
          ret |-> OkEvent([type |-> "Trades", market |-> msg.market,
                           trades |-> ConvertTrades(msg.trades)])]

\* The OrderbookUpdate event of a book (the book is a clone of the entry).
OrderbookEvent(sym, book) ==
    OkEvent([type |-> "OrderbookUpdate", market |-> sym, book |-> book])

\* Mutant of process_partial: the snapshot is merged into the entry that is
\* already in the table instead of replacing it.
process_partial_merge(tbl, msg) ==
    LET fresh == [bids |-> <<>>, asks |-> <<>>, time |-> msg.time]
        old == IF msg.market \in DOMAIN tbl THEN tbl[msg.market] ELSE fresh
        orderbook == update_with_timestamp(old, from_tuples_vec(msg.bids),
                                           from_tuples_vec(msg.asks), msg.time)
    IN  IF msg.market = NoMarket
        THEN [tbl |-> tbl, ret |-> Panic]
        ELSE [tbl |-> Insert(tbl, msg.market, orderbook),
              ret |-> OrderbookEvent(msg.market, orderbook)]

\* Mutant of process_partial: the snapshot starts a new table that holds
\* this symbol only.
process_partial_reset(tbl, msg) ==
    LET orderbook == [bids |-> from_tuples_vec_unsorted("bids", msg.bids),
                      asks |-> from_tuples_vec_unsorted("asks", msg.asks),
                      time |-> msg.time]
    IN  IF msg.market = NoMarket
        THEN [tbl |-> tbl, ret |-> Panic]
        ELSE [tbl |-> Insert(<<>>, msg.market, orderbook),
              ret |-> OrderbookEvent(msg.market, orderbook)]

\* Mutant of process_partial: the pairs are taken as already sorted
\* (from_tuples_vec in place of from_tuples_vec_unsorted).
process_partial_presorted(tbl, msg) ==
    LET orderbook == [bids |-> from_tuples_vec(msg.bids),
                      asks |-> from_tuples_vec(msg.asks),
                      time |-> msg.time]
    IN  IF msg.market = NoMarket
        THEN [tbl |-> tbl, ret |-> Panic]
        ELSE [tbl |-> Insert(tbl, msg.market, orderbook),
              ret |-> OrderbookEvent(msg.market, orderbook)]

\* "partial": a fresh book from the pairs of the message replaces the entry.
process_partial(tbl, msg) ==
    LET orderbook == [bids |-> from_tuples_vec_unsorted("bids", msg.bids),
                      asks |-> from_tuples_vec_unsorted("asks", msg.asks),
                      time |-> msg.time]
    IN  IF msg.market = NoMarket
        THEN [tbl |-> tbl, ret |-> Panic]
        ELSE [tbl |-> Insert(tbl, msg.market, orderbook),
              ret |-> OrderbookEvent(msg.market, orderbook)]

\* Mutant of process_update: the bids and asks of the delta are passed to
\* update_with_timestamp in the wrong order.
process_update_swapped(tbl, msg) ==
    IF msg.market = NoMarket \/ msg.market \notin DOMAIN tbl
    THEN [tbl |-> tbl, ret |-> Panic]
    ELSE LET orderbook ==
                 update_with_timestamp(tbl[msg.market],
                                       from_tuples_vec(msg.asks),
                                       from_tuples_vec(msg.bids),
                                       msg.time)
         IN  [tbl |-> Insert(tbl, msg.market, orderbook),
              ret |-> OrderbookEvent(msg.market, orderbook)]

\* Mutant of process_update: the pairs of the delta are appended to the
\* entry's vectors instead of being merged by update_with_timestamp.
process_update_append(tbl, msg) ==
    IF msg.market = NoMarket \/ msg.market \notin DOMAIN tbl
    THEN [tbl |-> tbl, ret |-> Panic]
    ELSE LET old == tbl[msg.market]
             orderbook == [bids |-> old.bids \o from_tuples_vec(msg.bids),
                           asks |-> old.asks \o from_tuples_vec(msg.asks),
                           time |-> msg.time]
         IN  [tbl |-> Insert(tbl, msg.market, orderbook),
              ret |-> OrderbookEvent(msg.market, orderbook)]

\* "update": the entry of the symbol is updated in place; markets.get_mut(..)
\* .unwrap() panics when the message names no market or there is no entry.
process_update(tbl, msg) ==
    IF msg.market = NoMarket \/ msg.market \notin DOMAIN tbl
    THEN [tbl |-> tbl, ret |-> Panic]
    ELSE LET orderbook ==
                 update_with_timestamp(tbl[msg.market],
                                       from_tuples_vec(msg.bids),
                                       from_tuples_vec(msg.asks),
                                       msg.time)
         IN  [tbl |-> Insert(tbl, msg.market, orderbook),
              ret |-> OrderbookEvent(msg.market, orderbook)]

\* Mutant of process_unknown: the entry of the symbol is dropped before the
\* error is returned.
process_unknown_drop(tbl, msg) ==
    [tbl |-> [s \in DOMAIN tbl \ {msg.market} |-> tbl[s]],
     ret |-> [kind |-> "Err", error |-> "UnknownVariantError",
              variant |-> msg.action]]

\* Any other action: Err(MarketDataError::with_source(UnknownVariantError)).
process_unknown(tbl, msg) ==
    [tbl |-> tbl,
     ret |-> [kind |-> "Err", error |-> "UnknownVariantError",
              variant |-> msg.action]]

\* Ftx::process_ws_msg: the new table and the returned value.
process_ws_msg(tbl, msg) ==
    CASE msg.kind = "garbage" ->
            [tbl |-> tbl, ret |-> [kind |-> "Err", error |-> "serde_json"]]
      [] msg.kind = "trades" -> process_trades(tbl, msg)
      [] msg.kind = "orderbook" /\ msg.action = "partial" ->
            process_partial(tbl, msg)
      [] msg.kind = "orderbook" /\ msg.action = "update" ->
            process_update(tbl, msg)
      [] OTHER -> process_unknown(tbl, msg)

\* Mutant of EmittedAfter: the event shares the book of the table entry, so
\* it shows what the entry has become.
EmittedAfter_Shared(ev, tbl) ==
    IF /\ ev.kind = "Ok"
       /\ ev.event.type = "OrderbookUpdate"
       /\ ev.event.market \in DOMAIN tbl
    THEN OrderbookEvent(ev.event.market, tbl[ev.event.market])
    ELSE ev

\* An event returned by an earlier call, once the table has become tbl: its
\* book is a clone of the entry (orderbook.clone(), Box::new(orderbook)) and
\* owns its levels, so it is what it was.
EmittedAfter(ev, tbl) == ev

\* One call of process_ws_msg on the next text message of the socket.
ProcessWsMsg ==
    /\ ret = NoRet
    /\ \E msg \in Msgs :
          LET r == process_ws_msg(markets, msg)
          IN  /\ markets' = r.tbl
              /\ ret' = r.ret
              /\ lastMsg' = msg
              /\ prevMarkets' = markets
              /\ published' = EmittedAfter(published, r.tbl)
    /\ UNCHANGED <<ctlVars, mktVars>>

\* A table of two markets fed with single-level messages: at most one pair
\* of size 0 or 1 per order-book message, at most one trade per batch.
TableSymbols == Symbols \cup {"ETH-PERP"}
TableMsgs ==
    {[kind |-> "orderbook", market |-> m, action |-> a, time |-> 1,
      bids |-> p[1], asks |-> p[2]] :
        m \in TableSymbols, a \in Actions,
        p \in {<<<<>>, <<>>>>}
               \cup {<<<<x>>, <<>>>> : x \in Prices \X {0, 1}}
               \cup {<<<<>>, <<x>>>> : x \in Prices \X {0, 1}}}
    \cup {[kind |-> "trades", market |-> m, trades |-> ts] :
            m \in TableSymbols, ts \in {<<>>} \cup {<<t>> : t \in WsTrades}}
    \cup {[kind |-> "garbage"]}

\* One call of process_ws_msg on a message for one of the two markets.
ProcessTableMsg ==
    /\ ret = NoRet
    /\ \E msg \in TableMsgs :
          LET r == process_ws_msg(markets, msg)
          IN  /\ markets' = r.tbl
              /\ ret' = r.ret
              /\ lastMsg' = msg
              /\ prevMarkets' = markets
              /\ published' = EmittedAfter(published, r.tbl)
    /\ UNCHANGED <<ctlVars, mktVars>>

\* The caller sends the returned event to the engine's output, where a
\* consumer takes it and keeps it; an Err is only logged.
Publish ==
    /\ ret # NoRet
    /\ ret # Panic
    /\ published' = IF ret.kind = "Ok" THEN ret ELSE published
    /\ ret' = NoRet
    /\ lastMsg' = NoMsg
    /\ prevMarkets' = markets
    /\ UNCHANGED <<markets, ctlVars, mktVars>>

\* The caller takes the returned value; a panic has ended the engine task.
TakeResult ==
    /\ ret # NoRet
    /\ ret # Panic
    /\ ret' = NoRet
    /\ lastMsg' = NoMsg
    /\ prevMarkets' = markets
    /\ UNCHANGED <<markets, published, ctlVars, mktVars>>

\* ------------------------------------------------------------------------
\* TryFrom<&rest::MarketInfo> for botvana::market::Market
\* ------------------------------------------------------------------------

\* Option::None of base_currency / quote_currency.
NoCurrency == "none"

\* rest::MarketInfo values (the fields the translation reads).
MarketInfos ==
    [name : {"BTC/USD", "BTC-PERP"},
     base_currency : {NoCurrency, "BTC"},
     quote_currency : {NoCurrency, "USD"},
     type : {"spot", "future", "swap"},
     size_increment : {1, 2},
     price_increment : {1, 2}]

NoInfo == [name |-> "none"]
NoConv == [kind |-> "none"]

\* Ok(Market {..}) of a record and its market type.
OkMarket(m, t) ==
    [kind |-> "Ok",
     market |-> [name |-> m.name, native_symbol |-> m.name,
                 size_increment |-> m.size_increment,
                 price_increment |-> m.price_increment,
                 type |-> t]]

\* Mutant of try_from: a type that is not "spot" is taken as a future.
try_from_default_futures(m) ==
    IF m.type = "spot"
    THEN IF m.base_currency = NoCurrency
         THEN [kind |-> "Err", error |-> "Missing base currency"]
         ELSE IF m.quote_currency = NoCurrency
         THEN [kind |-> "Err", error |-> "Missing quote currency"]
         ELSE OkMarket(m, [kind |-> "Spot", base |-> m.base_currency,
                           quote |-> m.quote_currency])
    ELSE OkMarket(m, [kind |-> "Futures"])

\* try_from(market: &MarketInfo) -> Result<Market, String>.
try_from(m) ==
    IF m.type = "spot"
    THEN IF m.base_currency = NoCurrency
         THEN [kind |-> "Err", error |-> "Missing base currency"]
         ELSE IF m.quote_currency = NoCurrency
         THEN [kind |-> "Err", error |-> "Missing quote currency"]
         ELSE OkMarket(m, [kind |-> "Spot", base |-> m.base_currency,
                           quote |-> m.quote_currency])
    ELSE IF m.type = "future"
    THEN OkMarket(m, [kind |-> "Futures"])
    ELSE [kind |-> "Err", error |-> "Invalid market type", type |-> m.type]

\* fetch_markets reaches the next record of the exchange's response.
NextRecord ==
    /\ info = NoInfo \/ converted # NoConv
    /\ info' \in MarketInfos
    /\ converted' = NoConv
    /\ UNCHANGED <<ctlVars, bookVars>>

\* The record is translated.
Translate ==
    /\ info # NoInfo
    /\ converted = NoConv
    /\ converted' = try_from(info)
    /\ UNCHANGED <<info, ctlVars, bookVars>>

InitBook ==
    /\ markets = <<>>
    /\ prevMarkets = <<>>
    /\ lastMsg = NoMsg
    /\ ret = NoRet
    /\ published = NoRet
    /\ info = NoInfo
    /\ converted = NoConv

InitControl ==
    /\ InitBook
    /\ status = "Offline"
    /\ pc = "new"
    /\ startResult = "none"
    /\ tokenHeld = FALSE
    /\ connected = FALSE
    /\ sent = <<>>
    /\ helloFailed = FALSE
    /\ gotFrame = FALSE
    /\ lastErr = "none"
    /\ attempts = 0
    /\ backoffLeft = 0
    /\ pingLeft = 0
    /\ sincePing = 0
    /\ readers = <<>>
    /\ triggered = FALSE
    /\ otherTokens = 0

\* What the engine task does when it is scheduled, and the passing of time.
EngineStep ==
    \/ Start
    \/ BackoffDone
    \/ LoopEntry
    \/ DialOk
    \/ DialFail
    \/ HelloOk
    \/ HelloFail
    \/ PingOk
    \/ PingFail
    \/ ShutdownObserved
    \/ Tick

NextControl ==
    \/ Start
    \/ BackoffDone
    \/ LoopEntry
    \/ DialOk
    \/ DialFail
    \/ HelloOk
    \/ HelloFail
    \/ PingOk
    \/ PingFail
    \/ ShutdownObserved
    \/ Tick
    \/ RecvFrame
    \/ RecvErr
    \/ RecvClosed
    \/ Trigger
    \/ OtherAcquire
    \/ OtherRelease
    \/ DataRx

SpecControl == InitControl /\ [][NextControl]_vars

\* The executor runs the task whenever one of its futures is ready, time
\* passes, and a triggered shutdown that the select keeps polling is taken.
FairControl ==
    /\ InitControl
    /\ [][NextControl]_vars
    /\ WF_vars(EngineStep)
    /\ WF_vars(ShutdownObserved)

\* The market-data side alone: the control engine has not been started.
InitBookOnly == InitControl

NextBook ==
    \/ ProcessWsMsg
    \/ TakeResult

SpecBook == InitBookOnly /\ [][NextBook]_vars

\* The table of two markets and a consumer of the events.
NextTable ==
    \/ ProcessTableMsg
    \/ Publish

SpecTable == InitBookOnly /\ [][NextTable]_vars

\* The translation of the exchange's market records.
NextMarkets ==
    \/ NextRecord
    \/ Translate

SpecMarkets == InitBookOnly /\ [][NextMarkets]_vars

\* ------------------------------------------------------------------------
\* Control Engine: properties
\* ------------------------------------------------------------------------

\* Positions inside a control_loop call.
InLoop == {"entry", "dial", "hello", "select"}

\* C1: start never returns an error. Every Err return of control_loop (token,
\* dial, socket/decode error, peer close) puts the driver into the full
\* 1-second sleep; the sleep is left only when it is over, and only into
\* exactly one new control_loop call; a retry is always possible (no retry
\* limit); start returns Ok only from a select that observed the shutdown
\* signal.
C1_StartRetriesUntilShutdown ==
    /\ [](startResult # "Err")
    /\ [](attempts <= 1)
    /\ []((pc = "backoff") => ENABLED (Tick \/ BackoffDone))
    /\ [][ /\ (/\ pc \in InLoop
               /\ pc' \notin InLoop
               /\ pc' # "panicked"
               /\ ~(pc = "select" /\ triggered /\ startResult' = "Ok"))
              => (/\ pc' = "backoff"
                  /\ backoffLeft' = BackoffSecs
                  /\ attempts' = 0
                  /\ startResult' = "none")
           /\ (pc = "backoff" /\ pc' # "backoff")
              => (backoffLeft = 0 /\ pc' = "entry" /\ attempts' = 1)
           /\ (startResult # "Ok" /\ startResult' = "Ok")
              => (pc = "select" /\ triggered /\ pc' = "done")
       ]_vars

\* C1 witness: a retry is running after an Err return and its backoff.
C1_Witness ==
    /\ pc = "entry"
    /\ attempts = 1
    /\ lastErr \in {"token", "dial", "frame", "closed"}
    /\ backoffLeft = 0

\* C2: once Shutdown::trigger() has been called, start eventually returns
\* Ok(()), from whatever state the engine is in.
C2_TriggerLeadsToOk == triggered ~> (pc = "done" /\ startResult = "Ok")

\* C3: after control_loop exits with a socket error, a decode error or a
\* peer close, the status is Offline (during the whole backoff), and the
\* status is never Online while no connection exists.
C3_OfflineAfterDisconnect ==
    /\ (pc = "backoff" /\ lastErr \in {"frame", "closed"}) => status = "Offline"
    /\ (status = "Online") => connected

\* C4: the status starts Offline; whenever control_loop dials, the status has
\* been set to Connecting; on a connection the status is Online exactly when
\* a valid inbound frame has been received on it, and Connecting before that.
C4_StatusTransitions ==
    /\ (pc = "new") => status = "Offline"
    /\ (pc = "dial") => status = "Connecting"
    /\ (pc \in {"hello", "select"}) =>
          /\ (status = "Online") <=> gotFrame
          /\ (~gotFrame) => status = "Connecting"

\* C4 witness: a second connection became Online again with its first frame,
\* after Hello was sent and a Ping went out.
C4_Witness ==
    /\ pc = "select"
    /\ status = "Online"
    /\ gotFrame
    /\ lastErr \in {"frame", "closed"}
    /\ sent = <<"Hello", "Ping">>

\* C10: on every connection Hello is the first outbound message, it is sent
\* exactly once, and no Ping is sent on a connection on which Hello has not
\* been sent successfully.
C10_HelloFirstAndOnce ==
    /\ \A i \in 1..Len(sent) :
          sent[i] = "Ping" => \E j \in 1..(i - 1) : sent[j] = "Hello"
    /\ Cardinality({i \in 1..Len(sent) : sent[i] = "Hello"}) <= 1
    /\ (pc = "select") => (\E j \in 1..Len(sent) : sent[j] = "Hello")

\* ------------------------------------------------------------------------
\* Order-book reconstruction: properties
\* ------------------------------------------------------------------------

\* The elements of a sequence.
Range(f) == {f[i] : i \in 1..Len(f)}
\* The sizes a price-level vector holds at price p.
SizesAt(levels, p) == {l[2] : l \in {x \in Range(levels) : x[1] = p}}
\* Strictly descending / ascending prices (so no price twice).
Descending(levels) ==
    \A i, j \in 1..Len(levels) : i < j => levels[i][1] > levels[j][1]
Ascending(levels) ==
    \A i, j \in 1..Len(levels) : i < j => levels[i][1] < levels[j][1]
\* The current call handled an order-book message of action a for a symbol.
Handled(a) ==
    /\ lastMsg.kind = "orderbook"
    /\ lastMsg.action = a
    /\ lastMsg.market \in Symbols

C6_UpdateUpserts ==
    (Handled("update") /\ lastMsg.market \in DOMAIN prevMarkets) =>
        /\ lastMsg.market \in DOMAIN markets
        /\ LET old == prevMarkets[lastMsg.market]
               new == markets[lastMsg.market]
               Merged(was, now, delta) ==
                   \A p \in Prices :
                       IF \E x \in Range(delta) : x[1] = p
                       THEN \A x \in Range(delta) :
                               x[1] = p =>
                                 SizesAt(now, p) = IF x[2] > 0 THEN {x[2]} ELSE {}
                       ELSE SizesAt(now, p) = SizesAt(was, p)
           IN  /\ Merged(old.bids, new.bids, lastMsg.bids)
               /\ Merged(old.asks, new.asks, lastMsg.asks)
               /\ Len(new.bids) = Cardinality(Range(new.bids))
               /\ Len(new.asks) = Cardinality(Range(new.asks))

\* C6 witness: one delta removed the bid at 2 (size 0) and inserted a bid
\* at 1, and the asks, which the delta does not list, are as they were.
C6_Witness ==
    /\ Handled("update")
    /\ lastMsg.market \in DOMAIN prevMarkets
    /\ prevMarkets[lastMsg.market].bids = <<<<2, 1>>>>
    /\ prevMarkets[lastMsg.market].asks = <<<<1, 2>>, <<2, 1>>>>
    /\ lastMsg.bids = <<<<2, 0>>, <<1, 2>>>>
    /\ markets[lastMsg.market].bids = <<<<1, 2>>>>
    /\ markets[lastMsg.market].asks = <<<<1, 2>>, <<2, 1>>>>

\* C7: an order-book message whose action is neither "partial" nor "update"
\* returns the unknown-variant error carrying that action, returns no event,
\* and leaves the whole table as it was.
C7_UnknownActionRejected ==
    (lastMsg.kind = "orderbook" /\ lastMsg.action \notin {"partial", "update"}) =>
        /\ ret.kind = "Err"
        /\ ret.error = "UnknownVariantError"
        /\ ret.variant = lastMsg.action
        /\ markets = prevMarkets

\* C7 witness: a "resync" carrying pairs was rejected while the symbol had
\* an entry with levels.
C7_Witness ==
    /\ Handled("resync")
    /\ lastMsg.bids # <<>>
    /\ ret.kind = "Err"
    /\ lastMsg.market \in DOMAIN markets
    /\ markets[lastMsg.market].bids # <<>>

C9_NoZeroSizeLevels ==
    /\ \A s \in DOMAIN markets :
          \A l \in Range(markets[s].bids) \cup Range(markets[s].asks) : l[2] > 0
    /\ (ret.kind = "Ok" /\ ret.event.type = "OrderbookUpdate") =>
          \A l \in Range(ret.event.book.bids) \cup Range(ret.event.book.asks) :
              l[2] > 0

\* C9 witness: a partial that lists a pair of size 0 next to a pair of
\* size > 0 was processed and its event returned.
C9_Witness ==
    /\ Handled("partial")
    /\ \E x \in Range(lastMsg.bids) : x[2] = 0
    /\ \E x \in Range(lastMsg.bids) : x[2] > 0
    /\ ret.kind = "Ok"
    /\ ret.event.type = "OrderbookUpdate"

\* ------------------------------------------------------------------------
\* Keepalive, failure policy, delay token, data_rx
\* ------------------------------------------------------------------------

\* C11: while the connection is up, no window of one ping interval passes
\* without a Ping: the time since the last keepalive send never exceeds the
\* interval, however often inbound frames arrive.
C11_PingEveryInterval == (pc = "select") => sincePing <= PingSecs

\* C12: no transport or decode error crashes the engine task, and none lets
\* the loop continue on the connection the error happened on: the task never
\* panics, and it never waits in the select of a connection whose Hello
\* send failed.
C12_ErrorsAbortAttempt ==
    /\ pc # "panicked"
    /\ (pc = "select") => ~helloFailed

\* C13: the delay token is held exactly while a control_loop iteration is
\* past its first line and has not exited; while it is held shutdown
\* completion does not resolve, no token is held in the backoff or after
\* start returned, and with no token outstanding a triggered shutdown
\* completes.
C13_TokenHeldForIteration ==
    /\ tokenHeld <=> pc \in {"dial", "hello", "select"}
    /\ tokenHeld => ~ShutdownCompleted
    /\ (pc \in {"backoff", "done"}) => ~tokenHeld
    /\ (triggered /\ pc \in {"backoff", "done"} /\ otherTokens = 0)
          => ShutdownCompleted

\* C13 witness: after the trigger an iteration ended with a frame error, the
\* task is in its backoff without a token and shutdown has completed.
C13_Witness ==
    /\ pc = "backoff"
    /\ lastErr = "frame"
    /\ triggered
    /\ ~tokenHeld
    /\ ShutdownCompleted

Parsable(ts) == SelectSeq(ts, LAMBDA t : ParseTime(t.time).ok)

\* C15: a trade batch for a market yields one Trades event for that market
\* holding, in wire order, one Trade (same price and size, parsed time) for
\* each record that parses and nothing for the others; the order-book table
\* is as it was before the message.
C15_TradesTranslated ==
    (lastMsg.kind = "trades" /\ lastMsg.market \in Symbols) =>
        /\ ret.kind = "Ok"
        /\ ret.event.type = "Trades"
        /\ ret.event.market = lastMsg.market
        /\ Len(ret.event.trades) = Len(Parsable(lastMsg.trades))
        /\ \A i \in 1..Len(ret.event.trades) :
              /\ ret.event.trades[i].price = Parsable(lastMsg.trades)[i].price
              /\ ret.event.trades[i].size = Parsable(lastMsg.trades)[i].size
              /\ ParseTime(Parsable(lastMsg.trades)[i].time).value
                    = ret.event.trades[i].time
        /\ markets = prevMarkets

\* C15 witness: a batch of two records, the first with a malformed
\* timestamp, was processed while the table held a book; the event holds
\* the second record only.
C15_Witness ==
    /\ lastMsg.kind = "trades"
    /\ lastMsg.market \in Symbols
    /\ Len(lastMsg.trades) = 2
    /\ ~ParseTime(lastMsg.trades[1].time).ok
    /\ ParseTime(lastMsg.trades[2].time).ok
    /\ ret.kind = "Ok"
    /\ Len(ret.event.trades) = 1
    /\ DOMAIN markets # {}

\* C19: an "update" for a symbol without a table entry is an error outcome
\* of process_ws_msg: the call returns Err (it does not abort the task), no
\* event is emitted and the table is unchanged.
C19_UpdateWithoutEntryIsErr ==
    (/\ lastMsg.kind = "orderbook"
     /\ lastMsg.action = "update"
     /\ lastMsg.market \in Symbols
     /\ lastMsg.market \notin DOMAIN prevMarkets) =>
        /\ ret.kind = "Err"
        /\ markets = prevMarkets

\* ------------------------------------------------------------------------
\* Events and the table of several markets
\* ------------------------------------------------------------------------

\* The current call took an order-book message the adapter accepts: a
\* partial, or an update for a symbol that has an entry.
Accepted ==
    /\ lastMsg.kind = "orderbook"
    /\ lastMsg.market \in TableSymbols
    /\ \/ lastMsg.action = "partial"
       \/ lastMsg.action = "update" /\ lastMsg.market \in DOMAIN prevMarkets

\* C14: an accepted partial or update for S returns one OrderbookUpdate
\* event for S whose book equals the entry of S right after the message,
\* and a step that processes a message leaves the event a consumer already
\* holds as it is.
C14_EventIsPointInTimeCopy ==
    /\ [](Accepted =>
            /\ ret.kind = "Ok"
            /\ ret.event.type = "OrderbookUpdate"
            /\ ret.event.market = lastMsg.market
            /\ ret.event.book = markets[lastMsg.market])
    /\ [][(ret = NoRet) => published' = published]_vars

\* C14 witness: a consumer holds an OrderbookUpdate event of S, and an
\* update for S has since changed the entry of S to a book other than the
\* one in that event.
C14_Witness ==
    /\ Accepted
    /\ lastMsg.action = "update"
    /\ published.kind = "Ok"
    /\ published.event.type = "OrderbookUpdate"
    /\ published.event.market = lastMsg.market
    /\ published.event.book = prevMarkets[lastMsg.market]
    /\ markets[lastMsg.market] # published.event.book

\* C20: a message for symbol S leaves every entry of another symbol as it
\* was and removes no symbol; the set of symbols changes only by a partial
\* for a symbol that had no entry, which adds that symbol.
C20_OtherSymbolsUntouched ==
    /\ \A s \in DOMAIN prevMarkets :
          /\ s \in DOMAIN markets
          /\ \/ lastMsg.kind \in {"orderbook", "trades"} /\ lastMsg.market = s
             \/ markets[s] = prevMarkets[s]
    /\ (DOMAIN markets # DOMAIN prevMarkets) =>
          /\ lastMsg.kind = "orderbook"
          /\ lastMsg.action = "partial"
          /\ lastMsg.market \notin DOMAIN prevMarkets
          /\ DOMAIN markets = DOMAIN prevMarkets \cup {lastMsg.market}

\* C20 witness: with non-empty books for both markets in the table, a
\* partial for one of them replaced its entry by another book.
C20_Witness ==
    /\ DOMAIN prevMarkets = TableSymbols
    /\ lastMsg.kind = "orderbook"
    /\ lastMsg.action = "partial"
    /\ markets[lastMsg.market] # prevMarkets[lastMsg.market]
    /\ \E s \in TableSymbols \ {lastMsg.market} :
          /\ markets[s].bids # <<>>
          /\ markets[s] = prevMarkets[s]

\* ------------------------------------------------------------------------
\* Market records
\* ------------------------------------------------------------------------

\* The fields copied from the record into an Ok result.
CopiedFields ==
    /\ converted.kind = "Ok"
    /\ converted.market.name = info.name
    /\ converted.market.native_symbol = info.name
    /\ converted.market.size_increment = info.size_increment
    /\ converted.market.price_increment = info.price_increment

\* C18: a translated record of type "spot" with base and quote currency
\* gives Ok with Spot{base, quote} of those currencies and the name,
\* native_symbol and increments of the record; type "future" gives Ok with
\* Futures; any other type, and a spot record without base or quote
\* currency, gives an Err that says what is wrong.
C18_MarketTranslation ==
    (converted # NoConv) =>
        /\ (/\ info.type = "spot"
            /\ info.base_currency # NoCurrency
            /\ info.quote_currency # NoCurrency) =>
               /\ CopiedFields
               /\ converted.market.type =
                      [kind |-> "Spot", base |-> info.base_currency,
                       quote |-> info.quote_currency]
        /\ (info.type = "future") =>
               /\ CopiedFields
               /\ converted.market.type = [kind |-> "Futures"]
        /\ (info.type = "spot" /\ info.base_currency = NoCurrency) =>
               /\ converted.kind = "Err"
               /\ converted.error = "Missing base currency"
        /\ (/\ info.type = "spot"
            /\ info.base_currency # NoCurrency
            /\ info.quote_currency = NoCurrency) =>
               /\ converted.kind = "Err"
               /\ converted.error = "Missing quote currency"
        /\ (info.type \notin {"spot", "future"}) =>
               /\ converted.kind = "Err"
               /\ converted.error = "Invalid market type"
               /\ converted.type = info.type

\* C18 witness: a record of type "swap" that carries both currencies was
\* translated, with an Err as the result.
C18_Witness ==
    /\ info # NoInfo
    /\ info.type = "swap"
    /\ info.base_currency # NoCurrency
    /\ info.quote_currency # NoCurrency
    /\ converted.kind = "Err"

====
